---- MODULE Spec2Model ----
(***************************************************************************)
(* A model of VBox::Monitor (src/vbox-monitor/VBox/Monitor.cpp): the       *)
(* snapshot store with its four polling threads, its recursive mutex, the  *)
(* start/stop lifecycle, the locked accessors and the copy, move and       *)
(* assignment operations.                                                  *)
(*                                                                         *)
(* A Monitor object holds one pointer, impl, to a heap block IMPL.  The    *)
(* fields of IMPL are functions over the block ids.  Threads are either    *)
(* callers (threads of the program using the Monitor) or tasks (the        *)
(* std::thread objects start() creates).  A guarded block that only reads  *)
(* or writes fields under one lock_guard is one step, enabled when the     *)
(* mutex can be taken by the acting thread; the operations that hold a     *)
(* mutex across several statements (copy construction, operator=, swap)    *)
(* take and release it in separate steps, so the mutex's owner is a fact   *)
(* of the state.                                                           *)
(***************************************************************************)
EXTENDS Integers, Sequences, FiniteSets, TLC

\* ------------------------------------------------------------------ bounds
NCallers == 2
MaxLaunch == 2
MaxVal == 1
MaxAlloc == 2
\* size_t is 64 bits wide.  Terminal dimensions are ints and a dump's size is
\* the size of a file, so no sum or product the viewport computes comes near
\* 2^64; the model computes modulo 2^SizeBits and keeps that proportion.
SizeBits == 12

\* The four std::thread t1..t4 of Monitor::start.
NumPollers == 4

Callers == 1..NCallers
Tasks == 1..(NumPollers * MaxLaunch)
\* Values a fetch can return; 0 is the absent / empty / null result.
Values == 0..MaxVal
FailOnly == {0}

\* Monitor objects: the two named instances and, per caller, the temporary
\* (the by-value parameter o of operator=, or the target of a construction).
MonA == <<"a", 0>>
MonB == <<"b", 0>>
Tmp(c) == <<"o", c>>
Monitors == {MonA, MonB} \cup {Tmp(c) : c \in Callers}

\* IMPL blocks: 1 and 2 are made by the constructors of a and b, the others
\* by copy construction.  0 is the null pointer.
Impls == 1..(2 + MaxAlloc)

\* Thread identities as mutex owners.
CallerId(c) == <<"c", c>>
TaskId(t) == <<"t", t>>
NoOwner == <<"n", 0>>

\* Which _update* function task t runs: t1 registers, t2 stack, t3 memory,
\* t4 live status.
KindNames == <<"registers", "stack", "dump", "live">>
Kind(t) == KindNames[((t - 1) % NumPollers) + 1]

VARIABLES
    impl,        \* Monitor::impl, per Monitor object (0: null / not constructed)
    heap,        \* per IMPL block: "unused", "live" or "freed"
    registers,   \* IMPL::_registers
    stack,       \* IMPL::_stack
    dump,        \* IMPL::_dump
    live,        \* IMPL::_live
    running,     \* IMPL::_running
    stop,        \* IMPL::_stop
    threads,     \* IMPL::_threads, a sequence of task handles
    rmtx,        \* IMPL::_rmtx: [owner, count]
    tpc,         \* per task: "unborn", "chk", "fetch", "done"
    tthis,       \* per task: the Monitor captured by the lambda ([this])
    timpl,       \* per task: the IMPL its _update* function runs on
    tjoined,     \* per task: its handle has been joined
    pc,          \* per caller: where it is in the call it is making
    cthis,       \* per caller: the Monitor the call is made on
    carg,        \* per caller: the other Monitor of the call (copy/move/assign source)
    cimpl,       \* per caller: the IMPL blocks its operation has read the pointers of
    lthreads,    \* per caller: the local vector threads of stop()
    ret,         \* per caller: what its accessor call returned
    seen,        \* per caller: the source snapshots that existed during its copy
    launched,    \* how many start() calls have created threads
    fault,       \* "none", or how the process ended ("terminate", "ub")
    uiRunning,   \* UI::IMPL::_running
    scr,         \* the Screen's loop: "off", "loop", "stopreq"
    uipc,        \* the UI thread: "idle", "loop" (in run()), "quit" (in the q handler)
    width,       \* Screen::width() as of the last redraw tick
    height,      \* Screen::height() as of the last redraw tick
    drawn,       \* the panels the last redraw tick drew
    memoryOffset,        \* UI::IMPL::_memoryOffset
    memoryBytesPerLine,  \* UI::IMPL::_memoryBytesPerLine
    memoryLines,         \* UI::IMPL::_memoryLines
    totalMemory          \* UI::IMPL::_totalMemory

implVars == <<heap, registers, stack, dump, live, running, stop, threads>>
dataVars == <<registers, stack, dump, live>>
taskVars == <<tpc, tthis, timpl, tjoined>>
callVars == <<pc, cthis, carg, cimpl, lthreads, ret, seen>>
monVars == <<impl, implVars, rmtx, taskVars, callVars, launched, fault>>
viewVars == <<memoryOffset, memoryBytesPerLine, memoryLines, totalMemory>>
tickVars == <<width, height, drawn>>
uiVars == <<uiRunning, scr, uipc, tickVars, viewVars>>
vars == <<monVars, uiVars>>

\* ------------------------------------------------------- recursive mutex
Free == [owner |-> NoOwner, count |-> 0]

\* std::recursive_mutex::lock returns for thread who on block i.
CanLock(i, who) == rmtx[i].owner = NoOwner \/ rmtx[i].owner = who

Locked(m, i, who) == [m EXCEPT ![i] = [owner |-> who, count |-> m[i].count + 1]]

Unlocked(m, i) ==
    [m EXCEPT ![i] = IF m[i].count <= 1 THEN Free
                     ELSE [owner |-> m[i].owner, count |-> m[i].count - 1]]

Holds(who, i) == rmtx[i].owner = who

\* ------------------------------------------------------------ snapshots
Snapshot(i) == <<registers[i], stack[i], dump[i], live[i]>>

NoRet == <<"none", 0>>

\* A task is executing from its creation until its _update* function returns.
Executing(t) == tpc[t] \in {"chk", "fetch"}

TasksOf(m) == {t \in Tasks : tpc[t] # "unborn" /\ tthis[t] = m}

\* ----------------------------------------------------------------- Init
\* The state after Monitor a( vm ) and Monitor b( vm ): IMPL( vmName ) sets
\* _running and _stop false and computes _live from the running VMs.
InitWith(liveSet) ==
    /\ impl = [m \in Monitors |-> IF m = MonA THEN 1 ELSE IF m = MonB THEN 2 ELSE 0]
    /\ heap = [i \in Impls |-> IF i <= 2 THEN "live" ELSE "unused"]
    /\ registers = [i \in Impls |-> 0]
    /\ stack = [i \in Impls |-> 0]
    /\ dump = [i \in Impls |-> 0]
    /\ \E l \in liveSet : live = [i \in Impls |-> IF i <= 2 THEN l ELSE FALSE]
    /\ running = [i \in Impls |-> FALSE]
    /\ stop = [i \in Impls |-> FALSE]
    /\ threads = [i \in Impls |-> <<>>]
    /\ rmtx = [i \in Impls |-> Free]
    /\ tpc = [t \in Tasks |-> "unborn"]
    /\ tthis = [t \in Tasks |-> MonA]
    /\ timpl = [t \in Tasks |-> 0]
    /\ tjoined = [t \in Tasks |-> FALSE]
    /\ pc = [c \in Callers |-> "idle"]
    /\ cthis = [c \in Callers |-> MonA]
    /\ carg = [c \in Callers |-> MonA]
    /\ cimpl = [c \in Callers |-> <<>>]
    /\ lthreads = [c \in Callers |-> <<>>]
    /\ ret = [c \in Callers |-> NoRet]
    /\ seen = [c \in Callers |-> {}]
    /\ launched = 0
    /\ fault = "none"
    /\ uiRunning = FALSE
    /\ scr = "off"
    /\ uipc = "idle"
    /\ width = 0
    /\ height = 0
    /\ drawn = {}
    /\ memoryOffset = 0
    /\ memoryBytesPerLine = 0
    /\ memoryLines = 0
    /\ totalMemory = 0

Init == InitWith(BOOLEAN)

\* The same with the VM not among the running VMs when a and b are built.
InitDown == InitWith({FALSE})

\* ---------------------------------------------------------- polling tasks
\* The four _update* functions have one shape; Kind(t) picks the fetch and
\* the field.  First block of the loop: lock_guard l( this->_rmtx );
\* if( this->_stop ) return; and the guard's release.
\* Variant of AfterCheck: the check's lock_guard would outlive its block and
\* the task would keep the mutex into the fetch.
AfterCheckHeld(t) == Locked(rmtx, timpl[t], TaskId(t))

\* The mutex when the block of the check ends: its lock_guard has taken and
\* released it.
AfterCheck(t) == rmtx

UpdateCheck(t) ==
    /\ fault = "none"
    /\ tpc[t] = "chk"
    /\ IF heap[timpl[t]] # "live"
       THEN /\ fault' = "ub"
            /\ UNCHANGED <<tpc, rmtx>>
       ELSE /\ CanLock(timpl[t], TaskId(t))
            /\ tpc' = [tpc EXCEPT ![t] = IF stop[timpl[t]] THEN "done" ELSE "fetch"]
            /\ rmtx' = AfterCheck(t)
            /\ UNCHANGED fault
    /\ UNCHANGED <<impl, implVars, tthis, timpl, tjoined, callVars, launched>>

\* Variant of StoreField: an empty result would leave the field as it was.
StoreFieldKeepsOnEmpty(t, i, v) ==
    /\ registers' = IF Kind(t) = "registers" /\ v # 0 THEN [registers EXCEPT ![i] = v] ELSE registers
    /\ stack' = IF Kind(t) = "stack" /\ v # 0 THEN [stack EXCEPT ![i] = v] ELSE stack
    /\ dump' = IF Kind(t) = "dump" /\ v # 0 THEN [dump EXCEPT ![i] = v] ELSE dump
    /\ live' = IF Kind(t) = "live" /\ v # 0 THEN [live EXCEPT ![i] = TRUE] ELSE live

\* The stored fields after task t assigns v on block i.
StoreField(t, i, v) ==
    /\ registers' = IF Kind(t) = "registers" THEN [registers EXCEPT ![i] = v] ELSE registers
    /\ stack' = IF Kind(t) = "stack" THEN [stack EXCEPT ![i] = v] ELSE stack
    /\ dump' = IF Kind(t) = "dump" THEN [dump EXCEPT ![i] = v] ELSE dump
    /\ live' = IF Kind(t) = "live" THEN [live EXCEPT ![i] = (v # 0)] ELSE live

\* Callers that are copying block i see every snapshot it takes.
SeenAfter(i) ==
    [c \in Callers |->
        IF pc[c] \in {"copy_regs", "copy_stack", "copy_dump"} /\ cimpl[c][1] = i
        THEN seen[c] \cup {<<registers'[i], stack'[i], dump'[i], live'[i]>>}
        ELSE seen[c]]

\* Variant of StoreCanLock: the store would not wait for the mutex.
StoreCanLockNone(t) == TRUE

\* The mutex the store's lock_guard l( this->_rmtx ) needs.
StoreCanLock(t) == CanLock(timpl[t], TaskId(t))

\* Second block of the loop: the external fetch returns v (one of results),
\* then lock_guard l( this->_rmtx ); this->_registers = regs; (or _stack,
\* _dump, _live) and the guard's release.
UpdateStore(t, results) ==
    /\ fault = "none"
    /\ tpc[t] = "fetch"
    /\ IF heap[timpl[t]] # "live"
       THEN /\ fault' = "ub"
            /\ UNCHANGED <<dataVars, tpc, seen>>
       ELSE /\ StoreCanLock(t)
            /\ \E v \in results : StoreField(t, timpl[t], v)
            /\ seen' = SeenAfter(timpl[t])
            /\ tpc' = [tpc EXCEPT ![t] = "chk"]
            /\ UNCHANGED fault
    /\ UNCHANGED <<impl, heap, running, stop, threads, rmtx, tthis, timpl, tjoined,
                   pc, cthis, carg, cimpl, lthreads, ret, launched>>

\* ---------------------------------------------------------- Monitor::start
NewTasks == {NumPollers * launched + k : k \in 1..NumPollers}
NewHandles == [k \in 1..NumPollers |-> NumPollers * launched + k]

\* Variant of StartLaunch: the launch would leave _running as it was.
StartLaunchKeepsFlag(m, i) ==
    /\ stop' = [stop EXCEPT ![i] = FALSE]
    /\ running' = running
    /\ threads' = [threads EXCEPT ![i] = threads[i] \o NewHandles]
    /\ tpc' = [t \in Tasks |-> IF t \in NewTasks THEN "chk" ELSE tpc[t]]
    /\ tthis' = [t \in Tasks |-> IF t \in NewTasks THEN m ELSE tthis[t]]
    /\ timpl' = [t \in Tasks |-> IF t \in NewTasks THEN i ELSE timpl[t]]
    /\ launched' = launched + 1

\* _stop = false, _running = true, the four threads are created and their
\* handles pushed on _threads.  A thread's lambda reads this->impl when it
\* begins to run; the model binds the thread to the block at its creation,
\* the earliest moment of that read.
StartLaunch(m, i) ==
    /\ stop' = [stop EXCEPT ![i] = FALSE]
    /\ running' = [running EXCEPT ![i] = TRUE]
    /\ threads' = [threads EXCEPT ![i] = threads[i] \o NewHandles]
    /\ tpc' = [t \in Tasks |-> IF t \in NewTasks THEN "chk" ELSE tpc[t]]
    /\ tthis' = [t \in Tasks |-> IF t \in NewTasks THEN m ELSE tthis[t]]
    /\ timpl' = [t \in Tasks |-> IF t \in NewTasks THEN i ELSE timpl[t]]
    /\ launched' = launched + 1

\* The whole of start() runs under lock_guard l( this->impl->_rmtx ):
\* if( _running ) return; else launch.  The bound on launches is in the
\* guard: a start() that would create threads past MaxLaunch is not called.
Start(c, m) ==
    /\ fault = "none"
    /\ pc[c] = "idle"
    /\ impl[m] # 0
    /\ heap[impl[m]] = "live"
    /\ running[impl[m]] \/ launched < MaxLaunch
    /\ CanLock(impl[m], CallerId(c))
    /\ IF running[impl[m]]
       THEN UNCHANGED <<stop, running, threads, tpc, tthis, timpl, launched>>
       ELSE StartLaunch(m, impl[m])
    /\ cthis' = [cthis EXCEPT ![c] = m]
    /\ UNCHANGED <<impl, heap, dataVars, rmtx, tjoined, pc, carg, cimpl,
                   lthreads, ret, seen, fault>>

\* ----------------------------------------------------------- Monitor::stop
\* Variant of MovedFrom: the handles would be copied and stay in _threads.
MovedFromCopy(hs) == hs

\* What is left in _threads after threads = std::move( _threads ).
MovedFrom(hs) == <<>>

\* The first guarded block: lock_guard l( this->impl->_rmtx );
\* threads = std::move( _threads ); _stop = true; and the guard's release.
StopTake(c, m) ==
    /\ fault = "none"
    /\ pc[c] = "idle"
    /\ impl[m] # 0
    /\ heap[impl[m]] = "live"
    /\ CanLock(impl[m], CallerId(c))
    /\ lthreads' = [lthreads EXCEPT ![c] = threads[impl[m]]]
    /\ threads' = [threads EXCEPT ![impl[m]] = MovedFrom(threads[impl[m]])]
    /\ stop' = [stop EXCEPT ![impl[m]] = TRUE]
    /\ pc' = [pc EXCEPT ![c] = "stop_join"]
    /\ cthis' = [cthis EXCEPT ![c] = m]
    /\ UNCHANGED <<impl, heap, dataVars, running, rmtx, taskVars, carg, cimpl,
                   ret, seen, launched, fault>>

\* Variant of Finished: join() would not wait for a task inside a fetch.
FinishedOrFetching(t) == tpc[t] \in {"done", "fetch"}

\* t.join() returns once the thread's function has returned.
Finished(t) == tpc[t] = "done"

\* for( auto & t: threads ) t.join(): one handle per step.  join() returns
\* when the thread's function has returned; join() on a handle that is not
\* joinable throws std::system_error, which nothing catches.
StopJoin(c) ==
    /\ fault = "none"
    /\ pc[c] = "stop_join"
    /\ lthreads[c] # <<>>
    /\ IF tjoined[Head(lthreads[c])]
       THEN /\ fault' = "terminate"
            /\ UNCHANGED <<tjoined, lthreads>>
       ELSE /\ Finished(Head(lthreads[c]))
            /\ tjoined' = [tjoined EXCEPT ![Head(lthreads[c])] = TRUE]
            /\ lthreads' = [lthreads EXCEPT ![c] = Tail(lthreads[c])]
            /\ UNCHANGED fault
    /\ UNCHANGED <<impl, implVars, rmtx, tpc, tthis, timpl, pc, cthis, carg,
                   cimpl, ret, seen, launched>>

\* The second guarded block, once every handle of the local vector is
\* joined: lock_guard l( this->impl->_rmtx ); _running = false; the guard's
\* release; stop() returns.
StopFinish(c) ==
    /\ fault = "none"
    /\ pc[c] = "stop_join"
    /\ lthreads[c] = <<>>
    /\ IF impl[cthis[c]] = 0 \/ heap[impl[cthis[c]]] # "live"
       THEN /\ fault' = "ub"
            /\ UNCHANGED <<running, pc>>
       ELSE /\ CanLock(impl[cthis[c]], CallerId(c))
            /\ running' = [running EXCEPT ![impl[cthis[c]]] = FALSE]
            /\ pc' = [pc EXCEPT ![c] = "idle"]
            /\ UNCHANGED fault
    /\ UNCHANGED <<impl, heap, dataVars, stop, threads, rmtx, taskVars, cthis, carg,
                   cimpl, lthreads, ret, seen, launched>>

\* --------------------------------------------------------------- accessors
FieldValue(f, i) ==
    IF f = "registers" THEN registers[i]
    ELSE IF f = "stack" THEN stack[i]
    ELSE IF f = "dump" THEN dump[i]
    ELSE IF live[i] THEN 1 ELSE 0

\* The mutex the accessor's lock_guard l( this->impl->_rmtx ) needs.
GetCanLock(c, m) == CanLock(impl[m], CallerId(c))

\* live(), registers(), stack(), dump(): lock_guard l( this->impl->_rmtx );
\* return this->impl->_f; the whole call is one guarded block.
Get(c, m, f) ==
    /\ fault = "none"
    /\ pc[c] = "idle"
    /\ impl[m] # 0
    /\ heap[impl[m]] = "live"
    /\ GetCanLock(c, m)
    /\ ret' = [ret EXCEPT ![c] = <<f, FieldValue(f, impl[m])>>]
    /\ pc' = [pc EXCEPT ![c] = "got"]
    /\ UNCHANGED <<impl, implVars, rmtx, taskVars, cthis, carg, cimpl, lthreads, seen,
                   launched, fault>>

\* The caller is done with the copy the accessor returned.
Drop(c) ==
    /\ fault = "none"
    /\ pc[c] = "got"
    /\ ret' = [ret EXCEPT ![c] = NoRet]
    /\ pc' = [pc EXCEPT ![c] = "idle"]
    /\ UNCHANGED <<impl, implVars, rmtx, taskVars, cthis, carg, cimpl, lthreads, seen,
                   launched, fault>>

\* -------------------------------------------------------- copy construction
\* make_unique< IMPL > takes the lowest block never used before.
HasUnused == \E n \in Impls : heap[n] = "unused"
NewBlock == CHOOSE n \in Impls : heap[n] = "unused" /\ \A k \in Impls : heap[k] = "unused" => n <= k

\* Monitor( const Monitor & o ): make_unique< IMPL >( *( o.impl ) ) reads the
\* source's pointer and allocates the new block before any lock is taken.
\* target is the object the call is made
\* on: the temporary itself for a plain copy, the assigned-to Monitor when
\* the copy is the by-value parameter o of operator=.
CopyBegin(c, target, m) ==
    /\ fault = "none"
    /\ pc[c] = "idle"
    /\ impl[m] # 0
    /\ impl[Tmp(c)] = 0
    /\ HasUnused
    /\ pc' = [pc EXCEPT ![c] = "copy_lock"]
    /\ cthis' = [cthis EXCEPT ![c] = target]
    /\ carg' = [carg EXCEPT ![c] = m]
    /\ cimpl' = [cimpl EXCEPT ![c] = <<impl[m], NewBlock>>]
    /\ heap' = [heap EXCEPT ![NewBlock] = "live"]
    /\ UNCHANGED <<impl, dataVars, running, stop, threads, rmtx, taskVars, lthreads,
                   ret, seen, launched, fault>>

\* Variant of CopyGuard: the copy would read the source without its mutex.
CopyGuardNone(c, i) == rmtx

\* The mutex after IMPL( const IMPL & o ) has built its temporary
\* lock_guard( o._rmtx ), which lives until the delegated constructor ends.
CopyGuard(c, i) == Locked(rmtx, i, CallerId(c))

\* IMPL( o, std::lock_guard( o._rmtx ) ): the source's mutex is taken.
CopyLock(c) ==
    /\ fault = "none"
    /\ pc[c] = "copy_lock"
    /\ IF heap[cimpl[c][1]] # "live"
       THEN /\ fault' = "ub"
            /\ UNCHANGED <<rmtx, pc, seen>>
       ELSE /\ CanLock(cimpl[c][1], CallerId(c))
            /\ rmtx' = CopyGuard(c, cimpl[c][1])
            /\ seen' = [seen EXCEPT ![c] = {Snapshot(cimpl[c][1])}]
            /\ pc' = [pc EXCEPT ![c] = "copy_regs"]
            /\ UNCHANGED fault
    /\ UNCHANGED <<impl, implVars, taskVars, cthis, carg, cimpl, lthreads, ret, launched>>

\* _registers( o._registers )
CopyRegisters(c) ==
    /\ fault = "none"
    /\ pc[c] = "copy_regs"
    /\ IF heap[cimpl[c][1]] # "live"
       THEN /\ fault' = "ub"
            /\ UNCHANGED <<registers, pc>>
       ELSE /\ registers' = [registers EXCEPT ![cimpl[c][2]] = registers[cimpl[c][1]]]
            /\ pc' = [pc EXCEPT ![c] = "copy_stack"]
            /\ UNCHANGED fault
    /\ UNCHANGED <<impl, heap, stack, dump, live, running, stop, threads, rmtx,
                   taskVars, cthis, carg, cimpl, lthreads, ret, seen, launched>>

\* _stack( o._stack )
CopyStack(c) ==
    /\ fault = "none"
    /\ pc[c] = "copy_stack"
    /\ IF heap[cimpl[c][1]] # "live"
       THEN /\ fault' = "ub"
            /\ UNCHANGED <<stack, pc>>
       ELSE /\ stack' = [stack EXCEPT ![cimpl[c][2]] = stack[cimpl[c][1]]]
            /\ pc' = [pc EXCEPT ![c] = "copy_dump"]
            /\ UNCHANGED fault
    /\ UNCHANGED <<impl, heap, registers, dump, live, running, stop, threads, rmtx,
                   taskVars, cthis, carg, cimpl, lthreads, ret, seen, launched>>

\* Variant of CopiedLive: the copy would take the source's _live.
CopiedLiveFromSource(src) == live[src]

\* The _live of the new block: _live( false ).
CopiedLive(src) == FALSE

\* _dump( o._dump ), _running( false ), _stop( false ), _live( false ); the
\* delegated constructor ends, the temporary lock_guard releases the source,
\* and the new Monitor's impl points to the new block.
CopyDump(c) ==
    /\ fault = "none"
    /\ pc[c] = "copy_dump"
    /\ IF heap[cimpl[c][1]] # "live"
       THEN /\ fault' = "ub"
            /\ UNCHANGED <<impl, dump, live, running, stop, threads, rmtx, pc>>
       ELSE /\ dump' = [dump EXCEPT ![cimpl[c][2]] = dump[cimpl[c][1]]]
            /\ running' = [running EXCEPT ![cimpl[c][2]] = FALSE]
            /\ stop' = [stop EXCEPT ![cimpl[c][2]] = FALSE]
            /\ live' = [live EXCEPT ![cimpl[c][2]] = CopiedLive(cimpl[c][1])]
            /\ threads' = [threads EXCEPT ![cimpl[c][2]] = <<>>]
            /\ rmtx' = Unlocked(rmtx, cimpl[c][1])
            /\ impl' = [impl EXCEPT ![Tmp(c)] = cimpl[c][2]]
            /\ pc' = [pc EXCEPT ![c] = IF cthis[c] = Tmp(c) THEN "copied" ELSE "assign_lock"]
            /\ UNCHANGED fault
    /\ UNCHANGED <<heap, registers, stack, taskVars, cthis, carg, cimpl, lthreads,
                   ret, seen, launched>>

CopySteps(c) == CopyLock(c) \/ CopyRegisters(c) \/ CopyStack(c) \/ CopyDump(c)

\* --------------------------------------------------------------- ~Monitor
Joinable(hs) == \E k \in 1..Len(hs) : ~tjoined[hs[k]]

\* Block i after delete: its memory is gone (the model keeps no value of it).
Freed(i) ==
    /\ heap' = [heap EXCEPT ![i] = "freed"]
    /\ registers' = [registers EXCEPT ![i] = 0]
    /\ stack' = [stack EXCEPT ![i] = 0]
    /\ dump' = [dump EXCEPT ![i] = 0]
    /\ live' = [live EXCEPT ![i] = FALSE]
    /\ running' = [running EXCEPT ![i] = FALSE]
    /\ stop' = [stop EXCEPT ![i] = FALSE]
    /\ threads' = [threads EXCEPT ![i] = <<>>]

\* ~Monitor() {} on the caller's temporary: unique_ptr deletes the IMPL and
\* ~IMPL destroys _threads; ~thread on a joinable handle calls
\* std::terminate.  Destroying a mutex another thread owns is undefined.
\* The call of which the temporary was part is over: its locals are gone.
DestroyTmp(c) ==
    /\ fault = "none"
    /\ pc[c] \in {"copied", "moved", "assign_destroy"}
    /\ IF impl[Tmp(c)] = 0
       THEN /\ pc' = [pc EXCEPT ![c] = "idle"]
            /\ UNCHANGED <<impl, implVars, fault>>
       ELSE IF Joinable(threads[impl[Tmp(c)]])
       THEN /\ fault' = "terminate"
            /\ UNCHANGED <<impl, implVars, pc>>
       ELSE IF rmtx[impl[Tmp(c)]].owner # NoOwner
       THEN /\ fault' = "ub"
            /\ UNCHANGED <<impl, implVars, pc>>
       ELSE /\ Freed(impl[Tmp(c)])
            /\ impl' = [impl EXCEPT ![Tmp(c)] = 0]
            /\ pc' = [pc EXCEPT ![c] = "idle"]
            /\ UNCHANGED fault
    /\ cthis' = [cthis EXCEPT ![c] = MonA]
    /\ carg' = [carg EXCEPT ![c] = MonA]
    /\ cimpl' = [cimpl EXCEPT ![c] = <<>>]
    /\ seen' = [seen EXCEPT ![c] = {}]
    /\ UNCHANGED <<rmtx, taskVars, lthreads, ret, launched>>

\* -------------------------------------------------------- move construction
\* The statement std::lock_guard< std::recursive_mutex >( o.impl->_rmtx );
\* builds an unnamed temporary: the mutex is taken and released before the
\* statement ends.
MoveGuard(c, i) == rmtx

MoveLock(c, m) ==
    /\ fault = "none"
    /\ pc[c] = "idle"
    /\ impl[m] # 0
    /\ heap[impl[m]] = "live"
    /\ impl[Tmp(c)] = 0
    /\ CanLock(impl[m], CallerId(c))
    /\ rmtx' = MoveGuard(c, impl[m])
    /\ pc' = [pc EXCEPT ![c] = "move_xfer"]
    /\ cthis' = [cthis EXCEPT ![c] = Tmp(c)]
    /\ carg' = [carg EXCEPT ![c] = m]
    /\ cimpl' = [cimpl EXCEPT ![c] = <<impl[m]>>]
    /\ UNCHANGED <<impl, implVars, taskVars, lthreads, ret, seen, launched, fault>>

\* this->impl = std::move( o.impl ); the constructor returns.
MoveTransfer(c) ==
    /\ fault = "none"
    /\ pc[c] = "move_xfer"
    /\ impl' = [impl EXCEPT ![Tmp(c)] = impl[carg[c]], ![carg[c]] = 0]
    /\ rmtx' = IF Holds(CallerId(c), cimpl[c][1]) THEN Unlocked(rmtx, cimpl[c][1]) ELSE rmtx
    /\ pc' = [pc EXCEPT ![c] = "moved"]
    /\ UNCHANGED <<implVars, taskVars, cthis, carg, cimpl, lthreads, ret, seen,
                   launched, fault>>

\* --------------------------------------------------------------- operator=
\* Monitor & operator =( Monitor o ): o is CopyBegin .. CopyDump with the
\* assigned-to Monitor as target.  Then std::lock( this->impl->_rmtx,
\* o.impl->_rmtx ) takes both mutexes without holding one while it waits for
\* the other, and l1, l2 adopt them.
AssignLock(c) ==
    /\ fault = "none"
    /\ pc[c] = "assign_lock"
    /\ IF impl[cthis[c]] = 0 \/ heap[impl[cthis[c]]] # "live"
       THEN /\ fault' = "ub"
            /\ UNCHANGED <<rmtx, pc, cimpl>>
       ELSE /\ CanLock(impl[cthis[c]], CallerId(c))
            /\ CanLock(impl[Tmp(c)], CallerId(c))
            /\ rmtx' = Locked(Locked(rmtx, impl[cthis[c]], CallerId(c)),
                              impl[Tmp(c)], CallerId(c))
            /\ cimpl' = [cimpl EXCEPT ![c] = <<impl[cthis[c]], impl[Tmp(c)]>>]
            /\ pc' = [pc EXCEPT ![c] = "assign_swap"]
            /\ UNCHANGED fault
    /\ UNCHANGED <<impl, implVars, taskVars, cthis, carg, lthreads, ret, seen, launched>>

\* Variant of Swap: the pointers would not be exchanged.
SwapNothing(c) ==
    /\ fault = "none"
    /\ pc[c] = "assign_swap"
    /\ CanLock(impl[cthis[c]], CallerId(c))
    /\ CanLock(impl[Tmp(c)], CallerId(c))
    /\ impl' = impl
    /\ pc' = [pc EXCEPT ![c] = "assign_unlock"]
    /\ UNCHANGED <<implVars, rmtx, taskVars, cthis, carg, cimpl, lthreads, ret, seen,
                   launched, fault>>

\* swap( *this, o ): std::lock on the two mutexes again (the caller owns
\* both: the recursive counts go to 2), swap( o1.impl, o2.impl ), and swap's
\* own guards release (the counts are back to 1).
Swap(c) ==
    /\ fault = "none"
    /\ pc[c] = "assign_swap"
    /\ CanLock(impl[cthis[c]], CallerId(c))
    /\ CanLock(impl[Tmp(c)], CallerId(c))
    /\ impl' = [impl EXCEPT ![cthis[c]] = impl[Tmp(c)], ![Tmp(c)] = impl[cthis[c]]]
    /\ pc' = [pc EXCEPT ![c] = "assign_unlock"]
    /\ UNCHANGED <<implVars, rmtx, taskVars, cthis, carg, cimpl, lthreads, ret, seen,
                   launched, fault>>

\* return *( this ): l2 and l1 release the mutexes they adopted; the
\* parameter o, which now owns the assigned-to Monitor's former block, is
\* destroyed next (DestroyTmp).
AssignUnlock(c) ==
    /\ fault = "none"
    /\ pc[c] = "assign_unlock"
    /\ rmtx' = Unlocked(Unlocked(rmtx, cimpl[c][2]), cimpl[c][1])
    /\ pc' = [pc EXCEPT ![c] = "assign_destroy"]
    /\ UNCHANGED <<impl, implVars, taskVars, cthis, carg, cimpl, lthreads, ret, seen,
                   launched, fault>>

AssignSteps(c) == AssignLock(c) \/ Swap(c) \/ AssignUnlock(c)

\* ---------------------------------------------------------------------- UI
\* The UI's thread: the thread that calls run(), and on which the Screen's
\* loop invokes the redraw and key callbacks.  The UI's _monitor is a.
UiThread == 1

\* size_t arithmetic.
SizeMod == 2 ^ SizeBits
Wrap(x) == x % SizeMod

\* Terminal sizes a redraw tick can see, around the thresholds of the panels.
Widths == {20, 29, 30, 88, 189, 190, 200}
Heights == {24, 25, 30, 34, 35, 40}

\* What _monitor.dump() can return on a tick: whatever the memory poller
\* stored last, a null pointer or a dump of some memorySize().
MemorySizes == {0, 50, 100}
NoDump == <<FALSE, 0>>
Dumps == {NoDump} \cup {<<TRUE, sz>> : sz \in MemorySizes}

\* Keys other than q; "x" stands for every key the handler has no branch for.
Keys == {"a", "s", "d", "f", "g", "x"}

\* Variant of MemoryScrollUp: the subtraction would not be guarded.
MemoryScrollUpUnguarded(n) ==
    memoryOffset' = Wrap(memoryOffset - Wrap(memoryBytesPerLine * n))

\* UI::IMPL::_memoryScrollUp( n )
MemoryScrollUp(n) ==
    memoryOffset' = IF memoryOffset > Wrap(memoryBytesPerLine * n)
                    THEN Wrap(memoryOffset - Wrap(memoryBytesPerLine * n))
                    ELSE 0

\* Variant of MemoryScrollDown: the offset would stop at the last byte.
MemoryScrollDownClamped(n) ==
    memoryOffset' = IF Wrap(memoryOffset + Wrap(memoryBytesPerLine * n)) < totalMemory
                    THEN Wrap(memoryOffset + Wrap(memoryBytesPerLine * n))
                    ELSE IF totalMemory > 0 THEN totalMemory - 1 ELSE memoryOffset

\* UI::IMPL::_memoryScrollDown( n )
MemoryScrollDown(n) ==
    memoryOffset' = IF Wrap(memoryOffset + Wrap(memoryBytesPerLine * n)) < totalMemory
                    THEN Wrap(memoryOffset + Wrap(memoryBytesPerLine * n))
                    ELSE memoryOffset

\* UI::IMPL::_memoryPageUp, _memoryPageDown
MemoryPageUp == MemoryScrollUp(memoryLines)
MemoryPageDown == MemoryScrollDown(memoryLines)

\* Variant of OnKeyPress: a key without a branch would reset the offset as
\* key g does.
OnKeyPressResets(key) ==
    /\ fault = "none"
    /\ uipc = "loop"
    /\ scr = "loop"
    /\ IF key = "a" THEN MemoryScrollUp(1)
       ELSE IF key = "s" THEN MemoryScrollDown(1)
       ELSE IF key = "d" THEN MemoryPageUp
       ELSE IF key = "f" THEN MemoryPageDown
       ELSE memoryOffset' = 0
    /\ UNCHANGED <<monVars, uiRunning, scr, uipc, tickVars, memoryBytesPerLine,
                   memoryLines, totalMemory>>

\* The key callback for a key other than q, invoked by the Screen's loop.
OnKeyPress(key) ==
    /\ fault = "none"
    /\ uipc = "loop"
    /\ scr = "loop"
    /\ IF key = "a" THEN MemoryScrollUp(1)
       ELSE IF key = "s" THEN MemoryScrollDown(1)
       ELSE IF key = "d" THEN MemoryPageUp
       ELSE IF key = "f" THEN MemoryPageDown
       ELSE IF key = "g" THEN memoryOffset' = 0
       ELSE UNCHANGED memoryOffset
    /\ UNCHANGED <<monVars, uiRunning, scr, uipc, tickVars, memoryBytesPerLine,
                   memoryLines, totalMemory>>

\* Variant of DrawsRegisters: the panel would not be gated on the width.
DrawsRegistersAnyWidth(w, h) == ~(h < 25)

\* The guards of _drawRegisters, _drawStack and _drawMemory.
DrawsRegisters(w, h) == ~(w < 30 \/ h < 25)
DrawsStack(w, h) == ~(w < 190 \/ h < 25)
DrawsMemory(w, h) == ~(w < 30 \/ h < 35)

\* _drawMemory: the viewport is recomputed only when the panel is drawn and
\* the dump is neither null nor empty; _memoryOffset is only read.
DrawMemory(w, h, d) ==
    IF DrawsMemory(w, h) /\ d[1] /\ d[2] > 0
    THEN /\ totalMemory' = d[2]
         /\ memoryBytesPerLine' = Wrap((Wrap(w - 4) \div 4) - 5)
         /\ memoryLines' = Wrap(h - 29)
    ELSE UNCHANGED <<totalMemory, memoryBytesPerLine, memoryLines>>

\* The redraw callback on a tick that sees a w x h terminal and the dump d:
\* _drawTitle, _drawRegisters, _drawStack, _drawMemory.  The accessors it
\* calls each take and release the Monitor's mutex.
Redraw(w, h, d) ==
    /\ fault = "none"
    /\ uipc = "loop"
    /\ GetCanLock(UiThread, MonA)
    /\ width' = w
    /\ height' = h
    /\ drawn' = {"title"}
                  \cup (IF DrawsRegisters(w, h) THEN {"registers"} ELSE {})
                  \cup (IF DrawsStack(w, h) THEN {"stack"} ELSE {})
                  \cup (IF DrawsMemory(w, h) THEN {"memory"} ELSE {})
    /\ DrawMemory(w, h, d)
    /\ UNCHANGED <<monVars, uiRunning, scr, uipc, memoryOffset>>

\* UI::run: if( _running ) return; _monitor.start(); _screen.start().  The
\* call stays in _screen.start() until the loop ends.  Nothing assigns
\* _running.
Run ==
    /\ uipc = "idle"
    /\ IF uiRunning
       THEN UNCHANGED <<monVars, scr, uipc>>
       ELSE /\ Start(UiThread, MonA)
            /\ scr' = "loop"
            /\ uipc' = "loop"
    /\ UNCHANGED <<uiRunning, tickVars, viewVars>>

\* Key q, first statement: _monitor.stop() begins.
KeyQuit ==
    /\ uipc = "loop"
    /\ scr = "loop"
    /\ StopTake(UiThread, MonA)
    /\ uipc' = "quit"
    /\ UNCHANGED <<uiRunning, scr, tickVars, viewVars>>

\* _monitor.stop() inside the q handler: the join loop and the second block.
QuitJoin == uipc = "quit" /\ StopJoin(UiThread) /\ UNCHANGED uiVars
QuitFinish == uipc = "quit" /\ StopFinish(UiThread) /\ UNCHANGED uiVars

\* Variant of MonitorStopped: the handler would not wait for stop().
MonitorStopSkipped == TRUE

\* _monitor.stop() has returned to the q handler.
MonitorStopped == pc[UiThread] = "idle"

\* Key q, second statement: _screen.stop() requests the loop's end; the
\* handler returns to the loop.
ScreenStop ==
    /\ fault = "none"
    /\ uipc = "quit"
    /\ MonitorStopped
    /\ scr' = "stopreq"
    /\ uipc' = "loop"
    /\ UNCHANGED <<monVars, uiRunning, tickVars, viewVars>>

\* The loop observes the stop request: _screen.start() and run() return.
RunReturns ==
    /\ fault = "none"
    /\ uipc = "loop"
    /\ scr = "stopreq"
    /\ scr' = "off"
    /\ uipc' = "idle"
    /\ UNCHANGED <<monVars, uiRunning, tickVars, viewVars>>

\* ------------------------------------------------------------ specifications
\* Lifecycle: every caller may call start() and stop() on a at any time.  The
\* control flow of the polling tasks does not read what a fetch returns, so
\* here every fetch returns the absent value.
Next ==
    \/ \E t \in Tasks : UpdateCheck(t) /\ UNCHANGED uiVars
    \/ \E t \in Tasks : UpdateStore(t, FailOnly) /\ UNCHANGED uiVars
    \/ \E c \in Callers : Start(c, MonA) /\ UNCHANGED uiVars
    \/ \E c \in Callers : StopTake(c, MonA) /\ UNCHANGED uiVars
    \/ \E c \in Callers : StopJoin(c) /\ UNCHANGED uiVars
    \/ \E c \in Callers : StopFinish(c) /\ UNCHANGED uiVars

Spec == InitDown /\ [][Next]_vars

\* The same calls under fair scheduling: a polling task that can take a step
\* eventually takes it (every external fetch returns), and a stop() in
\* progress continues when it can.  Whether a caller makes a call is left
\* open.
Fairness ==
    /\ \A t \in Tasks : WF_vars(UpdateCheck(t) /\ UNCHANGED uiVars)
    /\ \A t \in Tasks : WF_vars(UpdateStore(t, FailOnly) /\ UNCHANGED uiVars)
    /\ \A c \in Callers : WF_vars(StopJoin(c) /\ UNCHANGED uiVars)
    /\ \A c \in Callers : WF_vars(StopFinish(c) /\ UNCHANGED uiVars)

SpecFair == InitDown /\ [][Next]_vars /\ Fairness

\* Concurrent stop() calls: as Next, but start() is called only while no
\* other call is in progress.
AllIdle == \A c \in Callers : pc[c] = "idle"

NextStops ==
    \/ \E t \in Tasks : UpdateCheck(t) /\ UNCHANGED uiVars
    \/ \E t \in Tasks : UpdateStore(t, FailOnly) /\ UNCHANGED uiVars
    \/ \E c \in Callers : AllIdle /\ Start(c, MonA) /\ UNCHANGED uiVars
    \/ \E c \in Callers : StopTake(c, MonA) /\ UNCHANGED uiVars
    \/ \E c \in Callers : StopJoin(c) /\ UNCHANGED uiVars
    \/ \E c \in Callers : StopFinish(c) /\ UNCHANGED uiVars

SpecStops == InitDown /\ [][NextStops]_vars

\* One thread makes every call, one after the other; the fetches return any
\* value.
NextSeq ==
    \/ \E t \in Tasks : UpdateCheck(t) /\ UNCHANGED uiVars
    \/ \E t \in Tasks : UpdateStore(t, Values) /\ UNCHANGED uiVars
    \/ \E c \in {1} : Start(c, MonA) /\ UNCHANGED uiVars
    \/ \E c \in {1} : StopTake(c, MonA) /\ UNCHANGED uiVars
    \/ \E c \in {1} : StopJoin(c) /\ UNCHANGED uiVars
    \/ \E c \in {1} : StopFinish(c) /\ UNCHANGED uiVars

SpecSeq == Init /\ [][NextSeq]_vars

\* Readers and copies: caller 1 owns the lifecycle of a (its start() and
\* stop() calls follow one another), the other callers read a through the
\* accessors and copy-construct from it; the fetches return any value.
Fields == {"registers", "stack", "dump", "live"}

NextData ==
    \/ \E t \in Tasks : UpdateCheck(t) /\ UNCHANGED uiVars
    \/ \E t \in Tasks : UpdateStore(t, Values) /\ UNCHANGED uiVars
    \/ \E c \in {1} : Start(c, MonA) /\ UNCHANGED uiVars
    \/ \E c \in {1} : StopTake(c, MonA) /\ UNCHANGED uiVars
    \/ \E c \in {1} : StopJoin(c) /\ UNCHANGED uiVars
    \/ \E c \in {1} : StopFinish(c) /\ UNCHANGED uiVars
    \/ \E c \in Callers \ {1}, f \in Fields : Get(c, MonA, f) /\ UNCHANGED uiVars
    \/ \E c \in Callers \ {1} : Drop(c) /\ UNCHANGED uiVars
    \/ \E c \in Callers \ {1} : CopyBegin(c, Tmp(c), MonA) /\ UNCHANGED uiVars
    \/ \E c \in Callers \ {1} : CopySteps(c) /\ UNCHANGED uiVars
    \/ \E c \in Callers \ {1} : DestroyTmp(c) /\ UNCHANGED uiVars

SpecData == Init /\ [][NextData]_vars

\* Move construction from a, running or not, by any caller.
NextMove ==
    \/ \E t \in Tasks : UpdateCheck(t) /\ UNCHANGED uiVars
    \/ \E t \in Tasks : UpdateStore(t, FailOnly) /\ UNCHANGED uiVars
    \/ \E c \in {1} : Start(c, MonA) /\ UNCHANGED uiVars
    \/ \E c \in {1} : StopTake(c, MonA) /\ UNCHANGED uiVars
    \/ \E c \in {1} : StopJoin(c) /\ UNCHANGED uiVars
    \/ \E c \in {1} : StopFinish(c) /\ UNCHANGED uiVars
    \/ \E c \in Callers : MoveLock(c, MonA) /\ UNCHANGED uiVars
    \/ \E c \in Callers : MoveTransfer(c) /\ UNCHANGED uiVars
    \/ \E c \in Callers : DestroyTmp(c) /\ UNCHANGED uiVars

SpecMove == InitDown /\ [][NextMove]_vars

\* Assignments between a and b: caller 1 calls a.start() and a = b, the other
\* callers b.start() and b = a, each at any time.
NextAssign ==
    \/ \E t \in Tasks : UpdateCheck(t) /\ UNCHANGED uiVars
    \/ \E t \in Tasks : UpdateStore(t, FailOnly) /\ UNCHANGED uiVars
    \/ \E c \in {1} : Start(c, MonA) /\ UNCHANGED uiVars
    \/ \E c \in Callers \ {1} : Start(c, MonB) /\ UNCHANGED uiVars
    \/ \E c \in {1} : CopyBegin(c, MonA, MonB) /\ UNCHANGED uiVars
    \/ \E c \in Callers \ {1} : CopyBegin(c, MonB, MonA) /\ UNCHANGED uiVars
    \/ \E c \in Callers : CopySteps(c) /\ UNCHANGED uiVars
    \/ \E c \in Callers : AssignSteps(c) /\ UNCHANGED uiVars
    \/ \E c \in Callers : DestroyTmp(c) /\ UNCHANGED uiVars

SpecAssign == InitDown /\ [][NextAssign]_vars

\* The UI's lifecycle: run(), key q, and run() again, with the polling
\* tasks of its Monitor.
NextUI ==
    \/ \E t \in Tasks : UpdateCheck(t) /\ UNCHANGED uiVars
    \/ \E t \in Tasks : UpdateStore(t, FailOnly) /\ UNCHANGED uiVars
    \/ Run
    \/ KeyQuit
    \/ QuitJoin
    \/ QuitFinish
    \/ ScreenStop
    \/ RunReturns

SpecUI == InitDown /\ [][NextUI]_vars

\* The memory viewport: redraw ticks and the keys other than q while run()
\* is in the Screen's loop.  The polling tasks act on the viewport only
\* through the dump a tick sees, which is any dump.
NextView ==
    \/ Run
    \/ \E key \in Keys : OnKeyPress(key)
    \/ \E w \in Widths, h \in Heights, d \in Dumps : Redraw(w, h, d)

SpecView == InitDown /\ [][NextView]_vars

\* One external fetch never returns: the registers fetch of a's polling task.
\* One thread calls start() and stop(); the other callers call the accessors.
HungKind == "registers"
Hung(t) == Kind(t) = HungKind

NextHung ==
    \/ \E t \in Tasks : UpdateCheck(t) /\ UNCHANGED uiVars
    \/ \E t \in Tasks : ~Hung(t) /\ UpdateStore(t, FailOnly) /\ UNCHANGED uiVars
    \/ \E c \in {1} : Start(c, MonA) /\ UNCHANGED uiVars
    \/ \E c \in {1} : StopTake(c, MonA) /\ UNCHANGED uiVars
    \/ \E c \in {1} : StopJoin(c) /\ UNCHANGED uiVars
    \/ \E c \in {1} : StopFinish(c) /\ UNCHANGED uiVars
    \/ \E c \in Callers \ {1}, f \in Fields : Get(c, MonA, f) /\ UNCHANGED uiVars
    \/ \E c \in Callers \ {1} : Drop(c) /\ UNCHANGED uiVars

SpecHung == InitDown /\ [][NextHung]_vars

\* One thread starts b and assigns a = b, in either order and any number of
\* times; a is not running (an assignment to a running Monitor does not
\* complete, see SpecAssign).  The fetches of b's polling tasks return any
\* value.
NextAssignSeq ==
    \/ \E t \in Tasks : UpdateCheck(t) /\ UNCHANGED uiVars
    \/ \E t \in Tasks : UpdateStore(t, Values) /\ UNCHANGED uiVars
    \/ \E c \in {1} : Start(c, MonB) /\ UNCHANGED uiVars
    \/ \E c \in {1} : CopyBegin(c, MonA, MonB) /\ UNCHANGED uiVars
    \/ \E c \in {1} : CopySteps(c) /\ UNCHANGED uiVars
    \/ \E c \in {1} : AssignSteps(c) /\ UNCHANGED uiVars
    \/ \E c \in {1} : DestroyTmp(c) /\ UNCHANGED uiVars

SpecAssignSeq == Init /\ [][NextAssignSeq]_vars

\* ------------------------------------------------------------------ claims
\* A stop() call returns in the step that takes caller c from "stop_join" to
\* "idle".
StopReturns(c) == pc[c] = "stop_join" /\ pc'[c] = "idle"

\* C1: whenever a call of stop() on an instance returns, whichever thread
\* made it and whatever other start()/stop() calls are in progress, no
\* polling task launched on that instance is still executing.
C1_StopReturnsWithTasksJoined ==
    [][\A c \in Callers :
          StopReturns(c) => \A t \in TasksOf(cthis[c]) : ~(tpc'[t] \in {"chk", "fetch"})]_vars

\* C2: for every sequence of start() and stop() calls on one instance, the
\* running flag is true exactly from the return of a start() made while not
\* running until the return of the next stop(); start() while running and
\* stop() while not running change neither the running flag nor the set of
\* polling tasks.
C2_RunningBetweenStartAndStop ==
    [][\A c \in Callers :
          /\ Start(c, MonA) => running'[impl[MonA]]
          /\ StopReturns(c) => ~running'[impl[MonA]]
          /\ running'[impl[MonA]] # running[impl[MonA]]
                => \E d \in Callers : Start(d, MonA) \/ StopReturns(d)
          /\ Start(c, MonA) /\ running[impl[MonA]]
                => UNCHANGED <<running, tpc, threads>>
          /\ pc[c] = "idle" /\ ~running[impl[MonA]]
                => \A t \in Tasks : ~Executing(t)
          /\ StopTake(c, MonA) /\ ~running[impl[MonA]]
                => UNCHANGED <<running, tpc>> /\ lthreads'[c] = <<>>
          /\ StopReturns(c) /\ lthreads[c] = <<>> /\ ~running[impl[MonA]]
                => UNCHANGED <<running, tpc>>]_vars

\* A second start() has launched after a first start() and its stop().
C2_Witness ==
    /\ AllIdle
    /\ running[impl[MonA]]
    /\ launched >= 2
    /\ \A t \in 1..NumPollers : tjoined[t]

\* C3: under fair scheduling, with every external fetch returning, every
\* call of stop() eventually returns, for any interleaving of start() and
\* stop() calls on the instance.
C3_StopEventuallyReturns ==
    \A c \in Callers : (pc[c] = "stop_join") ~> (pc[c] = "idle")

\* The places that hold task t's handle: slots of an IMPL's _threads or of a
\* stop() call's local vector.
Holders(t) ==
    {x \in {"impl"} \X Impls \X (1..(NumPollers * MaxLaunch)) :
        x[3] \in DOMAIN threads[x[2]] /\ threads[x[2]][x[3]] = t}
    \cup
    {x \in {"local"} \X Callers \X (1..(NumPollers * MaxLaunch)) :
        x[3] \in DOMAIN lthreads[x[2]] /\ lthreads[x[2]][x[3]] = t}

\* C4: when threads call stop() concurrently on a running instance, every
\* polling-task handle is joined exactly once (until then it is in exactly
\* one vector, afterwards in none), no call fails, and once the calls have
\* returned the instance is not running and no polling task is alive.
C4_ConcurrentStops ==
    /\ fault = "none"
    /\ \A t \in Tasks :
          tpc[t] # "unborn" => Cardinality(Holders(t)) = IF tjoined[t] THEN 0 ELSE 1
    /\ AllIdle /\ stop[impl[MonA]] => ~running[impl[MonA]]
    /\ AllIdle /\ ~running[impl[MonA]]
          => \A t \in TasksOf(MonA) : tjoined[t] /\ tpc[t] = "done"

\* Two stop() calls are in progress on the running instance: one holds the
\* four handles and waits in join, the other took none.
C4_Witness ==
    /\ \E c \in Callers, d \in Callers :
          /\ c # d
          /\ pc[c] = "stop_join" /\ Len(lthreads[c]) = NumPollers
          /\ pc[d] = "stop_join" /\ lthreads[d] = <<>>
    /\ running[impl[MonA]]
    /\ \E t \in Tasks : tpc[t] = "fetch"

\* Caller c is inside an assignment: the copy that builds the parameter o,
\* the locked swap, or the destruction of o.
InAssign(c) ==
    pc[c] \in {"copy_lock", "copy_regs", "copy_stack", "copy_dump",
               "assign_lock", "assign_swap", "assign_unlock", "assign_destroy"}

\* a and b have both been started.
BothStarted == TasksOf(MonA) # {} /\ TasksOf(MonB) # {}

\* C5: when a = b and b = a run concurrently on two running instances the
\* assignments never get stuck: as long as one is in progress the process is
\* intact and some assignment in progress can take its next step.
C5_AssignmentsNeverStuck ==
    (BothStarted /\ \E c \in Callers : InAssign(c))
        => /\ fault = "none"
           /\ \E c \in Callers : ENABLED (CopySteps(c) \/ AssignSteps(c) \/ DestroyTmp(c))

\* The new block of caller c's copy and the block it was copied from.
CopyOf(c) == cimpl[c][2]
SourceOf(c) == cimpl[c][1]

\* C6: a copy of a Monitor, running or not, is not live, not running and has
\* no polling task, and its registers, stack and dump are together the
\* values the source held at one single instant of the copy.
C6_CopyIsSnapshot ==
    \A c \in Callers :
        pc[c] = "copied"
            => /\ ~live[CopyOf(c)]
               /\ ~running[CopyOf(c)]
               /\ \A t \in Tasks : tpc[t] # "unborn" => timpl[t] # CopyOf(c)
               /\ \E s \in seen[c] :
                     <<registers[CopyOf(c)], stack[CopyOf(c)], dump[CopyOf(c)]>>
                         = <<s[1], s[2], s[3]>>

\* A copy taken from the running source holds fetched data that the source
\* has since replaced.
C6_Witness ==
    \E c \in Callers :
        /\ pc[c] = "copied"
        /\ running[SourceOf(c)]
        /\ registers[CopyOf(c)] # 0
        /\ stack[CopyOf(c)] # 0
        /\ registers[SourceOf(c)] # registers[CopyOf(c)]

\* C7 as stated: the copy holds the source's registers, stack, dump and
\* liveness flag, and fresh running and stop flags and an empty handle list.
C7_CopiesFourFields ==
    \A c \in Callers :
        pc[c] = "copied"
            => /\ Snapshot(CopyOf(c)) \in seen[c]
               /\ ~running[CopyOf(c)]
               /\ ~stop[CopyOf(c)]
               /\ threads[CopyOf(c)] = <<>>

\* C7: the copy holds the source's registers, stack and dump; its liveness
\* flag, like its running and stop flags, is false whatever the source's,
\* its handle list is empty and its mutex is free.
C7_CopiesThreeFields ==
    \A c \in Callers :
        pc[c] = "copied"
            => /\ Cardinality(seen[c]) = 1
               /\ \A s \in seen[c] :
                     /\ registers[CopyOf(c)] = s[1]
                     /\ stack[CopyOf(c)] = s[2]
                     /\ dump[CopyOf(c)] = s[3]
               /\ live[CopyOf(c)] = FALSE
               /\ ~running[CopyOf(c)]
               /\ ~stop[CopyOf(c)]
               /\ threads[CopyOf(c)] = <<>>
               /\ rmtx[CopyOf(c)] = Free

\* A copy was taken while the source was live.
C7_Witness ==
    \E c \in Callers :
        /\ pc[c] = "copied"
        /\ \E s \in seen[c] : s[4]

\* C8: move construction holds the source's lock from its lock statement to
\* the transfer of the state pointer, so no polling task of the source
\* executes a guarded block in between.
C8_MoveExcludesPollers ==
    [][\A c \in Callers :
          pc[c] = "move_xfer"
              => \A t \in Tasks :
                    (tpc[t] # "unborn" /\ timpl[t] = cimpl[c][1]) => tpc'[t] = tpc[t]]_vars

\* C9: every write of registers, stack, dump or liveness flag by a polling
\* task, and every read of them by an accessor or by copy construction,
\* happens while the acting thread holds that block's mutex: a field changes
\* only in a step that finds the mutex free and takes it, an accessor reads
\* only when no other thread holds it, and a copy reads a field only while
\* it is the owner.
C9_FieldsUnderLock ==
    [][/\ \A i \in Impls :
             Snapshot(i)' # Snapshot(i) => rmtx[i].owner = NoOwner
       /\ \A c \in Callers :
             /\ (pc[c] = "idle" /\ pc'[c] = "got")
                   => rmtx[impl[MonA]].owner \in {NoOwner, CallerId(c)}
             /\ (pc[c] \in {"copy_regs", "copy_stack", "copy_dump"} /\ pc'[c] # pc[c])
                   => Holds(CallerId(c), SourceOf(c))]_vars

\* A poller has fetched and waits to store while a copy holds the mutex of
\* its block.
C9_Witness ==
    \E c \in Callers, t \in Tasks :
        /\ pc[c] = "copy_stack"
        /\ Holds(CallerId(c), SourceOf(c))
        /\ tpc[t] = "fetch"
        /\ timpl[t] = SourceOf(c)
        /\ registers[CopyOf(c)] # 0

\* Every polling task of a is inside its external fetch.
AllFetching == TasksOf(MonA) # {} /\ \A t \in TasksOf(MonA) : tpc[t] = "fetch"

\* C10: no thread holds a block's mutex during an external fetch: a task in
\* its fetch owns no mutex, every owner is a copy inside its field copies,
\* and with all four pollers in their fetches an accessor that no copy makes
\* wait can read at once.
C10_NoLockAcrossFetch ==
    /\ \A t \in Tasks, i \in Impls : tpc[t] = "fetch" => ~Holds(TaskId(t), i)
    /\ \A i \in Impls :
          rmtx[i].owner # NoOwner
              => \E c \in Callers :
                    /\ rmtx[i].owner = CallerId(c)
                    /\ pc[c] \in {"copy_regs", "copy_stack", "copy_dump"}
    /\ \A c \in Callers \ {1}, f \in Fields :
          (AllFetching /\ pc[c] = "idle"
              /\ \A d \in Callers : ~Holds(CallerId(d), impl[MonA]))
                => ENABLED Get(c, MonA, f)

\* An accessor has returned a fetched value while all four pollers are in
\* their fetches.
C10_Witness ==
    /\ AllFetching
    /\ Cardinality(TasksOf(MonA)) = NumPollers
    /\ \E c \in Callers : pc[c] = "got" /\ ret[c][2] # 0

\* C11: after any sequence of key events and redraw ticks, whatever dump and
\* terminal size each tick sees, the viewport offset is below the total
\* memory size, or 0 when the total memory size is 0.
C11_OffsetInRange ==
    /\ memoryOffset >= 0
    /\ IF totalMemory = 0 THEN memoryOffset = 0 ELSE memoryOffset < totalMemory

\* C12: key s (one line) and key f (the visible line count) add
\* bytesPerLine * n to the offset when the sum is strictly below the total
\* memory size and otherwise leave the offset as it is.
C12_ScrollDown ==
    [][/\ OnKeyPress("s")
             => memoryOffset' = IF memoryOffset + memoryBytesPerLine < totalMemory
                                THEN memoryOffset + memoryBytesPerLine
                                ELSE memoryOffset
       /\ OnKeyPress("f")
             => memoryOffset' = IF memoryOffset + memoryBytesPerLine * memoryLines < totalMemory
                                THEN memoryOffset + memoryBytesPerLine * memoryLines
                                ELSE memoryOffset]_vars

\* With 16 bytes per line and 100 bytes of memory the offset has reached 96,
\* from where a scroll-down would pass the end.
C12_Witness ==
    /\ uipc = "loop"
    /\ memoryBytesPerLine = 16
    /\ totalMemory = 100
    /\ memoryOffset = 96

\* C13: key a (one line) and key d (the visible line count) subtract
\* bytesPerLine * n from the offset when the difference is not negative and
\* set the offset to 0 otherwise; the offset never wraps around.
C13_ScrollUp ==
    [][/\ OnKeyPress("a")
             => memoryOffset' = IF memoryOffset - memoryBytesPerLine >= 0
                                THEN memoryOffset - memoryBytesPerLine
                                ELSE 0
       /\ OnKeyPress("d")
             => memoryOffset' = IF memoryOffset - memoryBytesPerLine * memoryLines >= 0
                                THEN memoryOffset - memoryBytesPerLine * memoryLines
                                ELSE 0
       /\ (OnKeyPress("a") \/ OnKeyPress("d"))
             => memoryOffset' >= 0 /\ memoryOffset' <= memoryOffset]_vars

\* The offset is above 0 and less than one line, and less than one page,
\* away from it: the next scroll-up of either kind has nothing to subtract
\* from.
C13_Witness ==
    /\ uipc = "loop"
    /\ memoryBytesPerLine = 41
    /\ memoryLines = 11
    /\ memoryOffset = 14

\* C17: a redraw tick draws the title always, the registers panel exactly
\* when width >= 30 and height >= 25, the stack panel exactly when
\* width >= 190 and height >= 25, and the memory panel exactly when
\* width >= 30 and height >= 35; 20 x 30 draws the title only and 200 x 40
\* all four.
C17_PanelGating ==
    drawn # {}
        => /\ "title" \in drawn
           /\ ("registers" \in drawn) <=> (width >= 30 /\ height >= 25)
           /\ ("stack" \in drawn) <=> (width >= 190 /\ height >= 25)
           /\ ("memory" \in drawn) <=> (width >= 30 /\ height >= 35)
           /\ (width = 20 /\ height = 30) => drawn = {"title"}
           /\ (width = 200 /\ height = 40)
                 => drawn = {"title", "registers", "stack", "memory"}

\* A tick on a 29 x 40 terminal has drawn the title only.
C17_Witness ==
    /\ width = 29
    /\ height = 40
    /\ drawn = {"title"}

\* The UI's Monitor has been stopped: its stop flag is set, it is not
\* running, and every polling task launched on it has ended and been joined.
MonitorQuiet ==
    /\ stop[impl[MonA]]
    /\ ~running[impl[MonA]]
    /\ threads[impl[MonA]] = <<>>
    /\ Cardinality(TasksOf(MonA)) = NumPollers * launched
    /\ \A t \in TasksOf(MonA) : tjoined[t] /\ tpc[t] = "done"

\* C14: on key q the handler stops the Monitor first and only then asks the
\* Screen to stop: from the moment the screen stop is requested until run()
\* has returned, the stop flag is set and all four polling tasks have been
\* joined.
C14_QuitStopsMonitorFirst ==
    [][/\ scr' = "stopreq" => MonitorQuiet'
       /\ (uipc = "loop" /\ uipc' = "idle") => MonitorQuiet']_vars

\* The Screen's stop has been requested after the first run()'s four tasks
\* were launched, and run() has not returned yet.
C14_Witness ==
    /\ scr = "stopreq"
    /\ uipc = "loop"
    /\ launched = 1
    /\ \A t \in 1..NumPollers : tjoined[t]

\* C15: run() is idempotent: the UI's running flag is true while run() is
\* executing, and a run() on a UI that has already been run starts neither
\* the Monitor nor the Screen again.
C15_RunIdempotent ==
    [][/\ uipc' # "idle" => uiRunning'
       /\ (uipc = "idle" /\ launched > 0) => UNCHANGED <<launched, scr>>]_vars

\* C16: a fetch that fails or returns nothing is stored as the absent value
\* of the task's field, replacing what the field held, and does not end the
\* task: after the store the task is back at its check of the stop flag,
\* from where it fetches again unless the flag is set, round after round.
C16_EmptyFetchStoredAndRetried ==
    [][\A t \in Tasks :
          /\ UpdateStore(t, FailOnly) => FieldValue(Kind(t), timpl[t])' = 0
          /\ (tpc[t] = "fetch" /\ tpc'[t] # "fetch") => tpc'[t] = "chk"
          /\ (tpc[t] = "chk" /\ tpc'[t] # "chk")
                => tpc'[t] = IF stop[timpl[t]] THEN "done" ELSE "fetch"]_vars

\* The registers of the running source are absent again although a copy
\* taken earlier holds fetched registers, and the registers task is in its
\* next fetch.
C16_Witness ==
    \E c \in Callers, t \in TasksOf(MonA) :
        /\ pc[c] = "copied"
        /\ registers[CopyOf(c)] # 0
        /\ registers[SourceOf(c)] = 0
        /\ Kind(t) = "registers"
        /\ tpc[t] = "fetch"

\* The handle of task t is in the local vector of a stop() call: that call
\* has set the stop flag after t was launched.
HandleTaken(t) ==
    \E c \in Callers : \E k \in DOMAIN lthreads[c] : lthreads[c][k] = t

\* C18: a task enters a fetch only from a check of the stop flag that found
\* it false; a task that has found the flag set has returned and neither
\* fetches nor stores again; and once stop() has set the flag for a task
\* (it has taken the task's handle) the task's next check ends it, so the
\* task stores at most once more.
C18_CheckBeforeFetch ==
    [][\A t \in Tasks :
          /\ (tpc[t] # "fetch" /\ tpc'[t] = "fetch")
                => tpc[t] = "chk" /\ ~stop[timpl[t]]
          /\ tpc[t] = "done" => tpc'[t] = "done"
          /\ (HandleTaken(t) /\ tpc[t] = "chk" /\ tpc'[t] # "chk")
                => tpc'[t] = "done"]_vars

\* The hung fetch is in progress.
HungNow == \E t \in TasksOf(MonA) : Hung(t) /\ tpc[t] = "fetch"

\* C19: while the fetch of one polling task never returns, every other task
\* can complete its iteration (its check, and the store of its fetch), every
\* accessor call can return, and a stop() in progress does not return.
C19_TasksIndependent ==
    /\ [](HungNow
            => /\ \A u \in TasksOf(MonA) :
                     /\ (tpc[u] = "fetch" /\ ~Hung(u)) => ENABLED UpdateStore(u, FailOnly)
                     /\ tpc[u] = "chk" => ENABLED UpdateCheck(u)
               /\ \A c \in Callers \ {1}, f \in Fields :
                     pc[c] = "idle" => ENABLED Get(c, MonA, f))
    /\ [][\A c \in Callers :
             (HungNow /\ pc[c] = "stop_join") => pc'[c] = "stop_join"]_vars

\* stop() waits for the hung registers task; the three other tasks have
\* ended and an accessor has returned.
C19_Witness ==
    /\ HungNow
    /\ pc[1] = "stop_join"
    /\ \A u \in TasksOf(MonA) : ~Hung(u) => tpc[u] = "done"
    /\ \E c \in Callers : pc[c] = "got"

\* C20: when an assignment a = b completes, a's registers, stack and dump
\* are the values b held when the copy was taken and a is not running and
\* has no task handles; no step of the assignment changes b's block, its
\* snapshot fields, its running and stop flags, its handles or its tasks.
C20_AssignResult ==
    [][\A c \in Callers :
          /\ (pc[c] = "assign_destroy" /\ pc'[c] = "idle")
                => /\ \E s \in seen[c] :
                         <<registers'[impl'[cthis[c]]], stack'[impl'[cthis[c]]],
                           dump'[impl'[cthis[c]]]>> = <<s[1], s[2], s[3]>>
                   /\ ~running'[impl'[cthis[c]]]
                   /\ threads'[impl'[cthis[c]]] = <<>>
                   /\ \A t \in Tasks : tpc[t] # "unborn" => timpl[t] # impl'[cthis[c]]
          /\ ((InAssign(c) \/ InAssign(c)') /\ pc'[c] # pc[c])
                => /\ impl'[MonB] = impl[MonB]
                   /\ Snapshot(impl[MonB])' = Snapshot(impl[MonB])
                   /\ running'[impl[MonB]] = running[impl[MonB]]
                   /\ stop'[impl[MonB]] = stop[impl[MonB]]
                   /\ threads'[impl[MonB]] = threads[impl[MonB]]
                   /\ \A t \in Tasks : timpl[t] = impl[MonB] => tpc'[t] = tpc[t]]_vars

\* a = b has completed while b runs: a's former block is freed and a holds
\* fetched registers.
C20_Witness ==
    /\ pc[1] = "idle"
    /\ heap[1] = "freed"
    /\ impl[MonA] # 1
    /\ running[impl[MonB]]
    /\ ~running[impl[MonA]]
    /\ registers[impl[MonA]] # 0

\* C21: a key other than q, a, s, d, f, g leaves the offset, the bytes per
\* line, the visible lines, the total memory size and the Monitor as they
\* are; key g sets the offset to 0 and changes nothing else.
C21_OtherKeysAndHome ==
    [][/\ OnKeyPress("x")
             => UNCHANGED <<viewVars, monVars, uiRunning, scr, uipc, tickVars>>
       /\ OnKeyPress("g")
             => /\ memoryOffset' = 0
                /\ UNCHANGED <<memoryBytesPerLine, memoryLines, totalMemory,
                               monVars, uiRunning, scr, uipc, tickVars>>]_vars

\* The key callback can be invoked with the offset away from 0, the Monitor
\* running: a key without a branch leaves 96, key g resets it.
C21_Witness ==
    /\ uipc = "loop"
    /\ scr = "loop"
    /\ running[impl[MonA]]
    /\ memoryOffset = 96
    /\ memoryBytesPerLine = 41
    /\ totalMemory = 100

\* The polling tasks launched on Monitor m that have not yet returned.
ExecutingOn(m) == {t \in TasksOf(m) : Executing(t)}

\* C22: in every reachable state, under any interleaving of start() and
\* stop() calls, at most four polling tasks launched on one Monitor are
\* executing, at most one for each data kind.
C22_AtMostOneTaskPerKind ==
    /\ Cardinality(ExecutingOn(MonA)) <= NumPollers
    /\ \A k \in DOMAIN KindNames :
          Cardinality({t \in ExecutingOn(MonA) : Kind(t) = KindNames[k]}) <= 1

\* Block i still holds an unjoined task handle, or a polling task launched
\* on it has not returned.
BlockInUse(i) ==
    \/ Joinable(threads[i])
    \/ \E t \in Tasks : Executing(t) /\ timpl[t] = i

\* C23: when no caller destroys a running Monitor itself, no IMPL block is
\* destroyed while it holds unjoined task handles or while a polling task
\* launched on it is executing; this includes the block that the parameter
\* of a = b owns at the end of the assignment when a is running.
C23_NoBlockDestroyedInUse ==
    [][\A c \in Callers :
          (DestroyTmp(c) /\ impl[Tmp(c)] # 0) => ~BlockInUse(impl[Tmp(c)])]_vars

====
